---- MODULE Spec2Model ----
(***************************************************************************)
(* Model of the HOME-GARAGE backend (server.ts): the motorcycles table of  *)
(* the SQLite database, the routes that read and write it, and the inline  *)
(* image upload that writes into the served uploads directory.             *)
(***************************************************************************)
EXTENDS Integers, Sequences, FiniteSets, TLC

VARIABLES table, files, now, last, calls, client

vars == <<table, files, now, last, calls, client>>

(***************************************************************************)
(* Bounds of the model.                                                    *)
(***************************************************************************)
\* seconds the wall clock may advance
MaxSecond == 1
\* milliseconds the wall clock may advance between uploads
MaxMs == 1
\* calls of the upload route
MaxCalls == 2
\* uploads, and delete requests, one page may have in flight
MaxInFlight == 2
\* rows without an id the table may hold
MaxNullRows == 2

(***************************************************************************)
(* JSON / JavaScript values of a request body and SQLite values of a row.  *)
(* One record shape for all of them, told apart by t.                      *)
(***************************************************************************)
Str(x) == [t |-> "string", s |-> x, n |-> 0]
Num(k) == [t |-> "number", s |-> "", n |-> k]
Null == [t |-> "null", s |-> "", n |-> 0]
Undefined == [t |-> "undefined", s |-> "", n |-> 0]

SqlText(x) == [t |-> "string", s |-> x, n |-> 0]
SqlInteger(k) == [t |-> "number", s |-> "", n |-> k]
SqlReal(k) == [t |-> "real", s |-> "", n |-> k]
SqlNull == [t |-> "null", s |-> "", n |-> 0]

Digit(d) == <<"0", "1", "2", "3", "4", "5", "6", "7", "8", "9">>[d + 1]

RECURSIVE NatText(_)
NatText(k) == IF k < 10 THEN Digit(k) ELSE NatText(k \div 10) \o Digit(k % 10)

\* the well-formed integer literals among the texts the requests carry
IntegerLiterals == [x \in {"2021"} |-> 2021]

\* a binding that turns undefined into the text undefined
BindParamText(v) ==
  CASE v.t = "string" -> SqlText(v.s)
    [] v.t = "number" -> SqlReal(v.n)
    [] v.t = "undefined" -> SqlText("undefined")
    [] OTHER -> SqlNull

\* better-sqlite3 binds a string as TEXT, a number as REAL (the numbers of the
\* model are whole), null and undefined as NULL
BindParam(v) ==
  CASE v.t = "string" -> SqlText(v.s)
    [] v.t = "number" -> SqlReal(v.n)
    [] OTHER -> SqlNull

\* a column declared TEXT stores a number as its text: a whole REAL as the
\* decimal digits followed by .0
TextAffinity(v) ==
  CASE v.t = "real" -> SqlText(NatText(v.n) \o ".0")
    [] v.t = "number" -> SqlText(NatText(v.n))
    [] OTHER -> v

\* a column declared INTEGER stores a whole REAL and a text that is an integer
\* literal as the integer, any other text as it is
IntegerAffinity(v) ==
  CASE v.t = "real" -> SqlInteger(v.n)
    [] v.t = "string" /\ v.s \in DOMAIN IntegerLiterals -> SqlInteger(IntegerLiterals[v.s])
    [] OTHER -> v

\* row.column in the result of a SELECT, as JSON
ColumnJson(v) ==
  CASE v.t = "string" -> Str(v.s)
    [] v.t \in {"number", "real"} -> Num(v.n)
    [] OTHER -> Null

(***************************************************************************)
(* Request bodies.                                                          *)
(***************************************************************************)
Specs(e, p, q, w, s) ==
  [t |-> "object", engine |-> e, power |-> p, torque |-> q, weight |-> w, topSpeed |-> s]

Bike(i, nm, c, y, d, m, im, sp) ==
  [id |-> i, name |-> nm, category |-> c, year |-> y, description |-> d,
   modifications |-> m, image |-> im, specs |-> sp]

\* the values of a complete record, of one that leaves optional fields out, of
\* one without a name, of one without specs, and of one with numbers where a
\* text is declared and a text where the integer is declared
Full(i) ==
  Bike(i, Str("n1"), Str("Yamaha"), Num(2020), Str(""), Str("m1"), Str("/uploads/1-2.png"),
       Specs(Str("e1"), Str("p1"), Str("q1"), Str("w1"), Str("s1")))

Part(i) ==
  Bike(i, Str("n3"), Str("Suzuki"), Num(2022), Undefined, Str("m3"), Undefined,
       Specs(Undefined, Str("p3"), Undefined, Str("w3"), Null))

NoName(i) ==
  Bike(i, Undefined, Str("Piaggio"), Num(2023), Str("d4"), Str("m4"), Str("i4"),
       Specs(Str("e4"), Str("p4"), Str("q4"), Str("w4"), Str("s4")))

NoSpecs(i) ==
  Bike(i, Str("n5"), Str("Honda"), Num(2019), Str("d5"), Str("m5"), Str("i5"), Undefined)

Loose(i) ==
  Bike(i, Num(7), Str("Honda"), Str("2021"), Str("d6"), Str("m6"), Str("i6"),
       Specs(Num(3), Str("p6"), Str("q6"), Str("w6"), Str("s6")))

\* the request bodies the clients send
Bodies ==
  <<Full(Str("a")), Full(Str("b")), Part(Str("a")), Part(Undefined), Loose(Str("b")),
    NoName(Str("a")), NoSpecs(Str("b"))>>

\* the ids a request names in its path
PathIds == {"a", "b"}

NoBike == Bike(Undefined, Undefined, Undefined, Undefined, Undefined, Undefined, Undefined, Undefined)

(***************************************************************************)
(* The motorcycles table: its rows in rowid order.                         *)
(***************************************************************************)
Row(i, nm, c, y, d, m, im, e, p, q, w, s, ts) ==
  [id |-> i, name |-> nm, category |-> c, year |-> y, description |-> d,
   modifications |-> m, image |-> im, engine |-> e, power |-> p, torque |-> q,
   weight |-> w, topSpeed |-> s, created_at |-> ts]

\* CURRENT_TIMESTAMP has the resolution of one second
MsPerSecond == 1000
CurrentTimestamp(ms) == ms \div MsPerSecond

\* the property access bike.specs.engine throws a TypeError when bike.specs is
\* undefined
SpecsThrows(bike) == bike.specs.t # "object"

\* the values INSERT binds, each stored under the affinity of its column
InsertRow(bike, ms) ==
  Row(TextAffinity(BindParam(bike.id)),
      TextAffinity(BindParam(bike.name)),
      TextAffinity(BindParam(bike.category)),
      IntegerAffinity(BindParam(bike.year)),
      TextAffinity(BindParam(bike.description)),
      TextAffinity(BindParam(bike.modifications)),
      TextAffinity(BindParam(bike.image)),
      TextAffinity(BindParam(bike.specs.engine)),
      TextAffinity(BindParam(bike.specs.power)),
      TextAffinity(BindParam(bike.specs.torque)),
      TextAffinity(BindParam(bike.specs.weight)),
      TextAffinity(BindParam(bike.specs.topSpeed)),
      CurrentTimestamp(ms))

\* name, category and year are declared NOT NULL
NotNullOk(row) == row.name.t # "null" /\ row.category.t # "null" /\ row.year.t # "null"

\* id TEXT PRIMARY KEY: no two rows with the same id; a NULL id equals none
HasId(tbl, i) == i.t # "null" /\ \E k \in 1..Len(tbl) : tbl[k].id = i

\* PrimaryKeyOk without the key constraint: every insert is accepted
PrimaryKeyAny(tbl, row) == TRUE

PrimaryKeyOk(tbl, row) == ~HasId(tbl, row.id)

\* UpdateRow as a merge: a value the body leaves out keeps the old one
Merged(new, old) == IF new.t = "null" THEN old ELSE new

UpdateRowMerge(old, bike) ==
  [old EXCEPT
     !.name = Merged(TextAffinity(BindParam(bike.name)), old.name),
     !.category = Merged(TextAffinity(BindParam(bike.category)), old.category),
     !.year = Merged(IntegerAffinity(BindParam(bike.year)), old.year),
     !.description = Merged(TextAffinity(BindParam(bike.description)), old.description),
     !.modifications = Merged(TextAffinity(BindParam(bike.modifications)), old.modifications),
     !.image = Merged(TextAffinity(BindParam(bike.image)), old.image),
     !.engine = Merged(TextAffinity(BindParam(bike.specs.engine)), old.engine),
     !.power = Merged(TextAffinity(BindParam(bike.specs.power)), old.power),
     !.torque = Merged(TextAffinity(BindParam(bike.specs.torque)), old.torque),
     !.weight = Merged(TextAffinity(BindParam(bike.specs.weight)), old.weight),
     !.topSpeed = Merged(TextAffinity(BindParam(bike.specs.topSpeed)), old.topSpeed)]

\* UpdateRow that also writes the id of the body, when the body has one
UpdateRowWithId(old, bike) ==
  [old EXCEPT
     !.id = Merged(TextAffinity(BindParam(bike.id)), old.id),
     !.name = TextAffinity(BindParam(bike.name)),
     !.category = TextAffinity(BindParam(bike.category)),
     !.year = IntegerAffinity(BindParam(bike.year)),
     !.description = TextAffinity(BindParam(bike.description)),
     !.modifications = TextAffinity(BindParam(bike.modifications)),
     !.image = TextAffinity(BindParam(bike.image)),
     !.engine = TextAffinity(BindParam(bike.specs.engine)),
     !.power = TextAffinity(BindParam(bike.specs.power)),
     !.torque = TextAffinity(BindParam(bike.specs.torque)),
     !.weight = TextAffinity(BindParam(bike.specs.weight)),
     !.topSpeed = TextAffinity(BindParam(bike.specs.topSpeed))]

\* an update torn in two: the scalar columns of the body, the specs columns
\* as they were
UpdateRowTorn(old, bike) ==
  [old EXCEPT
     !.name = TextAffinity(BindParam(bike.name)),
     !.category = TextAffinity(BindParam(bike.category)),
     !.year = IntegerAffinity(BindParam(bike.year)),
     !.description = TextAffinity(BindParam(bike.description)),
     !.modifications = TextAffinity(BindParam(bike.modifications)),
     !.image = TextAffinity(BindParam(bike.image))]

\* the row UPDATE ... WHERE id = ? leaves in place of old
UpdateRow(old, bike) ==
  [old EXCEPT
     !.name = TextAffinity(BindParam(bike.name)),
     !.category = TextAffinity(BindParam(bike.category)),
     !.year = IntegerAffinity(BindParam(bike.year)),
     !.description = TextAffinity(BindParam(bike.description)),
     !.modifications = TextAffinity(BindParam(bike.modifications)),
     !.image = TextAffinity(BindParam(bike.image)),
     !.engine = TextAffinity(BindParam(bike.specs.engine)),
     !.power = TextAffinity(BindParam(bike.specs.power)),
     !.torque = TextAffinity(BindParam(bike.specs.torque)),
     !.weight = TextAffinity(BindParam(bike.specs.weight)),
     !.topSpeed = TextAffinity(BindParam(bike.specs.topSpeed))]

\* an update that inserts the record under the path id when no row has it
UpdateOrInsert(tbl, i, bike) ==
  IF \E k \in 1..Len(tbl) : tbl[k].id = SqlText(i)
  THEN [k \in 1..Len(tbl) |-> IF tbl[k].id = SqlText(i) THEN UpdateRow(tbl[k], bike) ELSE tbl[k]]
  ELSE Append(tbl, InsertRow([bike EXCEPT !.id = Str(i)], 0))

\* UpdateTable without its WHERE clause
UpdateEvery(tbl, i, bike) == [k \in 1..Len(tbl) |-> UpdateRow(tbl[k], bike)]

UpdateTable(tbl, i, bike) ==
  [k \in 1..Len(tbl) |-> IF tbl[k].id = SqlText(i) THEN UpdateRow(tbl[k], bike) ELSE tbl[k]]

\* DeleteFrom without its WHERE clause
DeleteEvery(tbl, i) == <<>>

DeleteFrom(tbl, i) == SelectSeq(tbl, LAMBDA r : r.id # SqlText(i))

\* result.changes of a DELETE
Changes(tbl, i) == Len(tbl) - Len(DeleteFrom(tbl, i))

\* FormatBike with torque read from the weight column
FormatBikeCrossed(row) ==
  Bike(ColumnJson(row.id), ColumnJson(row.name), ColumnJson(row.category),
       ColumnJson(row.year), ColumnJson(row.description), ColumnJson(row.modifications),
       ColumnJson(row.image),
       Specs(ColumnJson(row.engine), ColumnJson(row.power), ColumnJson(row.weight),
             ColumnJson(row.weight), ColumnJson(row.topSpeed)))

\* the nested record GET builds from a row
FormatBike(row) ==
  Bike(ColumnJson(row.id), ColumnJson(row.name), ColumnJson(row.category),
       ColumnJson(row.year), ColumnJson(row.description), ColumnJson(row.modifications),
       ColumnJson(row.image),
       Specs(ColumnJson(row.engine), ColumnJson(row.power), ColumnJson(row.torque),
             ColumnJson(row.weight), ColumnJson(row.topSpeed)))

\* a SELECT without ORDER BY: the rows in rowid order
OrderByRowid(tbl, sec) == tbl

\* ORDER BY created_at DESC: rows of a later second first, rows of the same
\* second in rowid order
RECURSIVE OrderByCreatedDesc(_, _)
OrderByCreatedDesc(tbl, sec) ==
  IF sec < 0 THEN <<>>
  ELSE SelectSeq(tbl, LAMBDA r : r.created_at = sec) \o OrderByCreatedDesc(tbl, sec - 1)

RECURSIVE MaxCreated(_)
MaxCreated(tbl) ==
  IF tbl = <<>> THEN 0
  ELSE LET m == MaxCreated(Tail(tbl)) IN IF Head(tbl).created_at > m THEN Head(tbl).created_at ELSE m

ListAll(tbl) ==
  LET sorted == OrderByCreatedDesc(tbl, MaxCreated(tbl))
  IN [k \in 1..Len(sorted) |-> FormatBike(sorted[k])]

(***************************************************************************)
(* Texts of the upload route, as sequences of characters. A payload of     *)
(* millions of characters is written as its leading characters followed by *)
(* a run of the character A, given by its length.                          *)
(***************************************************************************)
RECURSIVE Join(_)
Join(cs) == IF cs = <<>> THEN "" ELSE Head(cs) \o Join(Tail(cs))

Alphabet ==
  <<"A", "B", "C", "D", "E", "F", "G", "H", "I", "J", "K", "L", "M", "N", "O", "P",
    "Q", "R", "S", "T", "U", "V", "W", "X", "Y", "Z", "a", "b", "c", "d", "e", "f",
    "g", "h", "i", "j", "k", "l", "m", "n", "o", "p", "q", "r", "s", "t", "u", "v",
    "w", "x", "y", "z", "0", "1", "2", "3", "4", "5", "6", "7", "8", "9", "+", "/">>

\* the value of a character in base64 (the URL-safe - and _ included), or -1
Unbase64(c) ==
  IF \E k \in 1..Len(Alphabet) : Alphabet[k] = c
  THEN (CHOOSE k \in 1..Len(Alphabet) : Alphabet[k] = c) - 1
  ELSE IF c = "-" THEN Len(Alphabet) - 2
  ELSE IF c = "_" THEN Len(Alphabet) - 1
  ELSE -1

\* \w of a regular expression: a letter, a digit or _
IsWordChar(c) == c = "_" \/ (c \notin {"+", "/", "-"} /\ Unbase64(c) >= 0)

DataImage == <<"d", "a", "t", "a", ":", "i", "m", "a", "g", "e", "/">>
Base64Comma == <<";", "b", "a", "s", "e", "6", "4", ",">>

IsPrefix(pre, cs) == Len(pre) <= Len(cs) /\ SubSeq(cs, 1, Len(pre)) = pre

Drop(cs, k) == SubSeq(cs, k + 1, Len(cs))

RECURSIVE WordRun(_)
WordRun(cs) == IF cs # <<>> /\ IsWordChar(Head(cs)) THEN 1 + WordRun(Tail(cs)) ELSE 0

\* the length of the match of /^data:image\/\w+;base64,/ at the start of cs,
\* or 0 when there is none
HeaderMatch(cs) ==
  IF ~IsPrefix(DataImage, cs) THEN 0
  ELSE LET w == WordRun(Drop(cs, Len(DataImage)))
       IN IF w > 0 /\ IsPrefix(Base64Comma, Drop(cs, Len(DataImage) + w))
          THEN Len(DataImage) + w + Len(Base64Comma)
          ELSE 0

\* image.replace(/^data:image\/\w+;base64,/, "")
StripHeader(cs) == Drop(cs, HeaderMatch(cs))

\* the base64 values Buffer.from(text, 'base64') reads: a character outside the
\* alphabet is skipped, the first = ends the text
RECURSIVE Sextets(_)
Sextets(cs) ==
  IF cs = <<>> \/ Head(cs) = "=" THEN <<>>
  ELSE IF Unbase64(Head(cs)) < 0 THEN Sextets(Tail(cs))
  ELSE <<Unbase64(Head(cs))>> \o Sextets(Tail(cs))

HasPadding(cs) == \E k \in 1..Len(cs) : cs[k] = "="

\* the bytes of groups of four values; a last group of two values gives one
\* byte, of three values two bytes
RECURSIVE GroupBytes(_)
GroupBytes(q) ==
  IF Len(q) < 2 THEN <<>>
  ELSE LET b1 == q[1] * 4 + q[2] \div 16
       IN IF Len(q) = 2 THEN <<b1>>
          ELSE LET b2 == (q[2] % 16) * 16 + q[3] \div 4
               IN IF Len(q) = 3 THEN <<b1, b2>>
                  ELSE <<b1, b2, (q[3] % 4) * 64 + q[4]>> \o GroupBytes(Drop(q, 4))

GroupCount(m) == 3 * (m \div 4) + (IF m % 4 = 0 THEN 0 ELSE (m % 4) - 1)

Min(a, b) == IF a < b THEN a ELSE b

RECURSIVE Zeros(_)
Zeros(k) == IF k = 0 THEN <<>> ELSE <<0>> \o Zeros(k - 1)

\* the content of a buffer or a file: its bytes up to the last byte that is
\* not 0, and the number of 0 bytes that follow
RECURSIVE Content(_, _)
Content(bytes, zeros) ==
  IF bytes # <<>> /\ bytes[Len(bytes)] = 0
  THEN Content(SubSeq(bytes, 1, Len(bytes) - 1), zeros + 1)
  ELSE [head |-> bytes, zeros |-> zeros]

Size(c) == Len(c.head) + c.zeros

\* the first k bytes of a content
Prefix(c, k) ==
  IF k <= Len(c.head) THEN Content(SubSeq(c.head, 1, k), 0) ELSE Content(c.head, k - Len(c.head))

\* Buffer.from(text, 'base64') of the characters cs followed by run times A
DecodeBase64(cs, run) ==
  LET q == Sextets(cs)
      r == IF HasPadding(cs) THEN 0 ELSE run
      fillUp == Min(r, (4 - (Len(q) % 4)) % 4)
  IN Content(GroupBytes(q \o Zeros(fillUp)), GroupCount(r - fillUp))

(***************************************************************************)
(* The upload route and the uploads directory.                             *)
(***************************************************************************)
\* fileSize of the multer limits, which no route uses
FileSizeLimit == 5 * 1024 * 1024

\* limit: '10mb' of express.json
BodyLimit == 10 * 1024 * 1024

RECURSIVE StripSlashes(_)
StripSlashes(cs) ==
  IF cs # <<>> /\ cs[Len(cs)] = "/" THEN StripSlashes(SubSeq(cs, 1, Len(cs) - 1)) ELSE cs

\* the part of a path after its last /
RECURSIVE BaseName(_)
BaseName(cs) ==
  IF \E k \in 1..Len(cs) : cs[k] = "/"
  THEN BaseName(Drop(cs, CHOOSE k \in 1..Len(cs) : cs[k] = "/"))
  ELSE cs

\* path.extname: from the last . of the base name on; empty when the base name
\* has no . or only a leading one, or is ..
ExtName(cs) ==
  LET base == BaseName(StripSlashes(cs))
      dots == {k \in 1..Len(base) : base[k] = "."}
      lastDot == CHOOSE k \in dots : \A j \in dots : j <= k
  IN IF dots = {} \/ lastDot = 1 \/ base = <<".", ".">> THEN <<>>
     ELSE Drop(base, lastDot - 1)

\* FileExt without the default
FileExtAsGiven(cs) == ExtName(cs)

\* path.extname(fileName) || '.jpg'
FileExt(cs) == IF ExtName(cs) = <<>> THEN <<".", "j", "p", "g">> ELSE ExtName(cs)

\* UniqueName without the random integer
TimestampName(ms, rnd, ext) == NatText(ms) \o "-" \o Join(ext)

\* Date.now() + '-' + Math.round(Math.random() * 1E9) + fileExt
UniqueName(ms, rnd, ext) == NatText(ms) \o "-" \o NatText(rnd) \o Join(ext)

ImageUrl(name) == "/uploads/" \o name

\* a request body {image, fileName}: the image is header, then b64, then run
\* times the character A
Upload(h, b, r, f) == [header |-> h, b64 |-> b, run |-> r, fileName |-> f]

ImageChars(u) == u.header \o u.b64

ImageLength(u) == Len(ImageChars(u)) + u.run

\* the length of {"image":"...","fileName":"..."}
BodyLength(u) == 26 + ImageLength(u) + Len(u.fileName)

DataUri(subtype) == DataImage \o subtype \o Base64Comma

\* the runs of A after the three characters QUI that make a payload of
\* exactly FileSizeLimit bytes, of one byte more, and a body past BodyLimit
RunToLimit == 4 * (FileSizeLimit \div 3)
RunPastLimit == RunToLimit + 1
RunPastBody == BodyLimit

\* the uploads the clients send: a PNG, a payload without a header under a
\* name without an extension, an SVG, payloads at and past the sizes, a body
\* without an image and a body without a file name
Uploads ==
  <<Upload(DataUri(<<"p", "n", "g">>), <<"Q", "U", "J", "D">>, 0, <<"x", ".", "p", "n", "g">>),
    Upload(<<>>, <<"Q", "U", "I", "=">>, 0, <<"p", "h", "o", "t", "o">>),
    Upload(DataUri(<<"s", "v", "g", "+", "x", "m", "l">>), <<"Q", "U", "J", "D">>, 0,
           <<"a", ".", "b", ".", "s", "v", "g">>),
    Upload(DataUri(<<"p", "n", "g">>), <<"Q", "U", "I">>, RunToLimit, <<"x", ".", "p", "n", "g">>),
    Upload(DataUri(<<"p", "n", "g">>), <<"Q", "U", "I">>, RunPastLimit, <<"x", ".", "p", "n", "g">>),
    Upload(DataUri(<<"p", "n", "g">>), <<"Q", "U", "I">>, RunPastBody, <<"x", ".", "p", "n", "g">>),
    Upload(<<>>, <<>>, 0, <<"x", ".", "p", "n", "g">>),
    Upload(DataUri(<<"p", "n", "g">>), <<"Q", "U", "J", "D">>, 0, <<>>)>>

\* the values Math.round(Math.random() * 1E9) takes: the ends of its range
Randoms == {0, 1000000000}

\* how fs.writeFileSync ends: the file is written; the file cannot be opened;
\* the file is opened and the write fails part way
Outcomes == {"written", "openFails", "writeFails"}

\* express.json refuses a body longer than its limit
TooLarge(u) == BodyLength(u) > BodyLimit

\* a test of the image alone
MissingImage(u) == ImageLength(u) = 0

\* !image || !fileName
MissingField(u) == ImageLength(u) = 0 \/ Len(u.fileName) = 0

\* Buffer.from(base64Data, 'base64')
Buffer(u) == DecodeBase64(StripHeader(ImageChars(u)), u.run)

\* a write that is queued and has not reached the directory
WriteFileLater(dir, name, c) == dir

\* a write that left name as the only file of the directory
WriteFileAlone(dir, name, c) == [x \in {name} |-> c]

\* the directory after name has been written with content c
WriteFile(dir, name, c) ==
  [x \in DOMAIN dir \cup {name} |-> IF x = name THEN c ELSE dir[x]]

\* express.static(uploadsDir): the answer to GET of a path
ServeStatic(dir, path) ==
  IF \E x \in DOMAIN dir : ImageUrl(x) = path
  THEN [status |-> 200, bytes |-> dir[CHOOSE x \in DOMAIN dir : ImageUrl(x) = path]]
  ELSE [status |-> 404, bytes |-> Content(<<>>, 0)]

\* the buffer and the extension of each of the uploads
Buffers == [k \in 1..Len(Uploads) |-> Buffer(Uploads[k])]
FileExts == [k \in 1..Len(Uploads) |-> FileExt(Uploads[k].fileName)]

\* one call of the upload route, as the log keeps it: the upload by its
\* place in Uploads, the answer, and what the call drew and met
Call(k, status, ms, rnd, name, outcome) ==
  [upload |-> k, status |-> status, at |-> ms, rnd |-> rnd, name |-> name, outcome |-> outcome]

(***************************************************************************)
(* The last request the server answered.                                   *)
(***************************************************************************)
Answer(op, i, bike, status, body, before) ==
  [op |-> op, id |-> i, bike |-> bike, status |-> status, body |-> body, before |-> before]

ErrorBody(msg) == [error |-> msg]

(***************************************************************************)
(* The state of the page: the React state of App and its requests in       *)
(* flight.                                                                 *)
(***************************************************************************)
\* new Date().getFullYear()
ThisYear == 2026

\* parseInt of an empty year input
NaN == [t |-> "nan", s |-> "", n |-> 0]

\* the initial formData, which openForm() sets again: no id
DefaultForm ==
  Bike(Undefined, Str(""), Str("Yamaha"), Num(ThisYear), Str(""), Str(""),
       Str("https://i.pinimg.com/1200x/42/d2/e2/42d2e21b5b70311bd82633fbbcafc172.jpg"),
       Specs(Str(""), Str(""), Str(""), Str(""), Str("")))

\* JSON.stringify of a record: NaN is written as null
JsonStringify(b) == IF b.year = NaN THEN [b EXCEPT !.year = Null] ELSE b

\* a save request: the fetch of handleAddOrEdit, with the record the handler
\* puts into the list when the answer is ok, and whether an upload was in
\* flight when it was sent
Save(method, path, body, loc, during) ==
  [stage |-> "sent", method |-> method, path |-> path, body |-> body, local |-> loc,
   status |-> 0, duringUpload |-> during]

\* a delete request: the fetch of handleDelete
Delete(i) == [stage |-> "sent", id |-> i, status |-> 0]

\* an upload: the FileReader and the fetch of handleFileUpload, and whether
\* the form it was started from has been closed since
FileUpload == [stage |-> "reading", status |-> 0, url |-> "", moved |-> FALSE]

\* the state of App after its first render
ClientInit ==
  [loading |-> TRUE, bikes |-> <<>>, form |-> DefaultForm, editing |-> Null, open |-> FALSE,
   saving |-> FALSE, uploading |-> FALSE, toast |-> "none",
   saves |-> <<>>, dels |-> <<>>, uploads |-> <<>>]

Init ==
  /\ client = ClientInit
  /\ table = <<>>
  /\ files = [x \in {} |-> Content(<<>>, 0)]
  /\ now = 0
  /\ last = Answer("none", "", NoBike, 0, <<>>, <<>>)
  /\ calls = <<>>

\* GET /api/motorcycles
GetMotorcycles ==
  /\ last' = Answer("list", "", NoBike, 200, ListAll(table), table)
  /\ UNCHANGED <<table, files, now, calls, client>>

\* the try block of POST /api/motorcycles runs to its end: reading the body
\* does not throw and the INSERT meets the constraints of the table
PostAccepted(tbl, bike, ms) ==
  /\ ~SpecsThrows(bike)
  /\ LET row == InsertRow(bike, ms) IN NotNullOk(row) /\ PrimaryKeyOk(tbl, row)

\* the try block of PUT /api/motorcycles/:id runs to its end
PutAccepted(tbl, p, bike) ==
  /\ ~SpecsThrows(bike)
  /\ \A k \in 1..Len(tbl) : tbl[k].id = SqlText(p) => NotNullOk(UpdateRow(tbl[k], bike))

\* POST /api/motorcycles with the body bike
PostMotorcycle(bike) ==
  LET ok == PostAccepted(table, bike, now)
  IN /\ table' = IF ok THEN Append(table, InsertRow(bike, now)) ELSE table
     /\ last' = IF ok THEN Answer("create", "", bike, 201, bike, table)
                ELSE Answer("create", "", bike, 500, ErrorBody("Failed to add motorcycle"), table)
     /\ UNCHANGED <<files, now, calls, client>>

\* an answer that carries the path id in place of the id of the body
PutEchoOfRow(p, bike) == [bike EXCEPT !.id = Str(p)]

\* res.json(bike) of the PUT route: the body as it came
PutEcho(p, bike) == bike

\* PUT /api/motorcycles/:id with the path id p and the body bike
PutMotorcycle(p, bike) ==
  LET ok == PutAccepted(table, p, bike)
  IN /\ table' = IF ok THEN UpdateTable(table, p, bike) ELSE table
     /\ last' = IF ok THEN Answer("update", p, bike, 200, PutEcho(p, bike), table)
                ELSE Answer("update", p, bike, 500, ErrorBody("Failed to update motorcycle"), table)
     /\ UNCHANGED <<files, now, calls, client>>

\* a delete route that also removed the file the image of the row refers to
FilesAfterCascade(dir, tbl, i) ==
  [x \in {y \in DOMAIN dir : \A k \in 1..Len(tbl) :
                               tbl[k].id = SqlText(i) => tbl[k].image # SqlText(ImageUrl(y))}
     |-> dir[x]]

\* the uploads directory after a delete route: the routes run DELETE FROM
\* motorcycles and call nothing of fs
FilesAfterDelete(dir, tbl, i) == dir

\* POST /api/motorcycles/:id/delete with the path id p
PostDelete(p) ==
  /\ table' = DeleteFrom(table, p)
  /\ last' = IF Changes(table, p) > 0
             THEN Answer("deletePost", p, NoBike, 200, [success |-> TRUE], table)
             ELSE Answer("deletePost", p, NoBike, 404, ErrorBody("Motorcycle with ID not found"), table)
  /\ files' = FilesAfterDelete(files, table, p)
  /\ UNCHANGED <<now, calls, client>>

\* a DELETE route that does not look at result.changes
DeleteUnchecked(p) ==
  /\ table' = DeleteFrom(table, p)
  /\ last' = Answer("delete", p, NoBike, 204, <<>>, table)
  /\ UNCHANGED <<files, now, calls, client>>

\* DELETE /api/motorcycles/:id with the path id p
DeleteMotorcycle(p) ==
  /\ table' = DeleteFrom(table, p)
  /\ last' = IF Changes(table, p) > 0
             THEN Answer("delete", p, NoBike, 204, <<>>, table)
             ELSE Answer("delete", p, NoBike, 404, ErrorBody("Motorcycle not found"), table)
  /\ files' = FilesAfterDelete(files, table, p)
  /\ UNCHANGED <<now, calls, client>>

\* the wall clock reaches the next second
TickSecond ==
  /\ CurrentTimestamp(now) < MaxSecond
  /\ now' = (CurrentTimestamp(now) + 1) * MsPerSecond
  /\ UNCHANGED <<table, files, last, calls, client>>

\* the record routes, called with the bodies that carry an id
StoreNext ==
  \/ GetMotorcycles
  \/ \E b \in 1..Len(Bodies) : Bodies[b].id.t # "undefined" /\ PostMotorcycle(Bodies[b])
  \/ \E p \in PathIds, b \in 1..Len(Bodies) : PutMotorcycle(p, Bodies[b])
  \/ \E p \in PathIds : PostDelete(p)
  \/ \E p \in PathIds : DeleteMotorcycle(p)
  \/ TickSecond

StoreSpec == Init /\ [][StoreNext]_vars

\* POST /api/upload with the body Uploads[k], the random integer rnd, and the
\* way the write ends
PostUpload(k, rnd, outcome) ==
  LET u == Uploads[k]
      name == UniqueName(now, rnd, FileExts[k])
  IN /\ Len(calls) < MaxCalls
     /\ IF TooLarge(u)
        THEN /\ calls' = Append(calls, Call(k, 413, now, rnd, "", outcome))
             /\ files' = files
        ELSE IF MissingField(u)
        THEN /\ calls' = Append(calls, Call(k, 400, now, rnd, "", outcome))
             /\ files' = files
        ELSE IF outcome = "written"
        THEN /\ calls' = Append(calls, Call(k, 200, now, rnd, name, outcome))
             /\ files' = WriteFile(files, name, Buffers[k])
        ELSE IF outcome = "openFails"
        THEN /\ calls' = Append(calls, Call(k, 500, now, rnd, name, outcome))
             /\ files' = files
        ELSE /\ calls' = Append(calls, Call(k, 500, now, rnd, name, outcome))
             /\ files' = WriteFile(files, name, Prefix(Buffers[k], Size(Buffers[k]) \div 2))
     /\ UNCHANGED <<table, now, last, client>>

\* the wall clock reaches the next millisecond
TickMs ==
  /\ now < MaxMs
  /\ now' = now + 1
  /\ UNCHANGED <<table, files, last, calls, client>>

Least(S) == CHOOSE x \in S : \A y \in S : x <= y

\* the upload route; a call that is refused before the name is drawn and the
\* file written is taken once, not once for each random integer and outcome
UploadNext ==
  \/ \E k \in 1..Len(Uploads), rnd \in Randoms, outcome \in Outcomes :
       /\ (TooLarge(Uploads[k]) \/ MissingField(Uploads[k])) =>
            (rnd = Least(Randoms) /\ outcome = "written")
       /\ PostUpload(k, rnd, outcome)
  \/ TickMs

UploadSpec == Init /\ [][UploadNext]_vars

\* a record whose image is the reference an upload of x.png returns: the
\* client stores data.url of the upload answer in the image field
Pictured(i) ==
  Bike(i, Str("n2"), Str("Honda"), Num(2021), Str("d2"), Str("m2"),
       Str(ImageUrl(UniqueName(0, Least(Randoms), FileExts[1]))),
       Specs(Str("e2"), Str("p2"), Str("q2"), Str("w2"), Str("s2")))

\* the uploads of x.png that the route stores: two payloads under one name
AssetUploads ==
  {k \in 1..Len(Uploads) : /\ Uploads[k].fileName = Uploads[1].fileName
                           /\ ~MissingField(Uploads[k])
                           /\ Size(Buffers[k]) <= FileSizeLimit}

\* the upload route and the record routes of one server within one
\* millisecond, the records referring to an uploaded image or to none
AssetNext ==
  \/ \E k \in AssetUploads, rnd \in Randoms, outcome \in Outcomes : PostUpload(k, rnd, outcome)
  \/ PostMotorcycle(Pictured(Str("a")))
  \/ \E p \in PathIds : PutMotorcycle(p, Part(Str("a")))
  \/ \E p \in PathIds : PostDelete(p)
  \/ \E p \in PathIds : DeleteMotorcycle(p)

AssetSpec == Init /\ [][AssetNext]_vars

\* the five keys of the specs sub-object
SpecNames == {"engine", "power", "torque", "weight", "topSpeed"}

\* a record with the id a whose specs sub-object leaves out the keys of S
Omitting(S) ==
  Bike(Str("a"), Str("n1"), Str("Yamaha"), Num(2020), Str("d1"), Str("m1"), Str("i1"),
       Specs(IF "engine" \in S THEN Undefined ELSE Str("e1"),
             IF "power" \in S THEN Undefined ELSE Str("p1"),
             IF "torque" \in S THEN Undefined ELSE Str("q1"),
             IF "weight" \in S THEN Undefined ELSE Str("w1"),
             IF "topSpeed" \in S THEN Undefined ELSE Str("s1")))

\* create, update and delete of one record, with every subset of the specs
\* keys left out
OptionalNext ==
  \/ \E S \in SUBSET SpecNames : PostMotorcycle(Omitting(S))
  \/ \E S \in SUBSET SpecNames : PutMotorcycle("a", Omitting(S))
  \/ DeleteMotorcycle("a")

OptionalSpec == Init /\ [][OptionalNext]_vars

\* records without a category and without a year
NoCategory(i) ==
  Bike(i, Str("n7"), Undefined, Num(2018), Str("d7"), Str("m7"), Str("i7"),
       Specs(Str("e7"), Str("p7"), Str("q7"), Str("w7"), Str("s7")))

NoYear(i) ==
  Bike(i, Str("n8"), Str("Suzuki"), Undefined, Str("d8"), Str("m8"), Str("i8"),
       Specs(Str("e8"), Str("p8"), Str("q8"), Str("w8"), Str("s8")))

\* the request bodies with and without the fields the table needs
KeyBodies ==
  <<Full(Str("a")), Full(Undefined), Part(Undefined), NoName(Str("a")), NoCategory(Str("a")),
    NoYear(Str("a")), NoName(Undefined)>>

NullRows(tbl) == {k \in 1..Len(tbl) : tbl[k].id = SqlNull}

\* the record routes, called with bodies that leave out the id, the name, the
\* category or the year
KeyNext ==
  \/ \E b \in 1..Len(KeyBodies) :
       /\ KeyBodies[b].id.t = "undefined" => Cardinality(NullRows(table)) < MaxNullRows
       /\ PostMotorcycle(KeyBodies[b])
  \/ \E p \in PathIds, b \in 1..Len(KeyBodies) : PutMotorcycle(p, KeyBodies[b])
  \/ \E p \in PathIds : PostDelete(p)
  \/ \E p \in PathIds : DeleteMotorcycle(p)

KeySpec == Init /\ [][KeyNext]_vars

(***************************************************************************)
(* The page: the handlers of App, each cut at its awaits, and the server   *)
(* answering the requests of the page.                                     *)
(***************************************************************************)
\* the ids Math.random().toString(36).substr(2, 9) gives
NewIds == {"a", "b"}

\* the name the user types
FormNames == {"n1"}

\* response.ok
IsOk(status) == status \in 200..299

Remove(seq, i) == SubSeq(seq, 1, i - 1) \o SubSeq(seq, i + 1, Len(seq))

\* closeForm(), and what it means for the uploads in flight
Closed(c) ==
  [c EXCEPT !.open = FALSE, !.editing = Null,
            !.uploads = [i \in 1..Len(c.uploads) |-> [c.uploads[i] EXCEPT !.moved = TRUE]]]

\* useEffect(() => { fetchBikes(); }, []): the list is fetched and set
FetchBikes ==
  /\ client.loading
  /\ client' = [client EXCEPT !.loading = FALSE, !.bikes = ListAll(table)]
  /\ UNCHANGED <<table, files, now, last, calls>>

\* openForm(): the form for a new record
OpenAdd ==
  /\ ~client.loading /\ ~client.open
  /\ client' = [client EXCEPT !.open = TRUE, !.editing = Null, !.form = DefaultForm]
  /\ UNCHANGED <<table, files, now, last, calls>>

\* openForm(bike): the form for the record at the place k of the list
OpenEdit(k) ==
  /\ ~client.loading /\ ~client.open
  /\ k \in 1..Len(client.bikes)
  /\ client' = [client EXCEPT !.open = TRUE, !.editing = client.bikes[k].id,
                              !.form = client.bikes[k]]
  /\ UNCHANGED <<table, files, now, last, calls>>

\* onChange of the name input
TypeName(v) ==
  /\ client.open
  /\ client' = [client EXCEPT !.form.name = Str(v)]
  /\ UNCHANGED <<table, files, now, last, calls>>

\* onChange of the year input when the user empties it: parseInt('')
ClearYear ==
  /\ client.open
  /\ client' = [client EXCEPT !.form.year = NaN]
  /\ UNCHANGED <<table, files, now, last, calls>>

\* closeForm from the X button, the backdrop or Batal
CloseForm ==
  /\ client.open
  /\ client' = Closed(client)
  /\ UNCHANGED <<table, files, now, last, calls>>

\* the submit button, disabled={saving || uploading}; the name input is
\* required
CanSubmit(c) == c.open /\ ~(c.saving \/ c.uploading) /\ c.form.name # Str("")

\* handleAddOrEdit up to its await: setSaving(true) and the fetch, PUT for the
\* record being edited, POST with a new id otherwise
Submit(i) ==
  /\ CanSubmit(client)
  /\ LET during == client.uploads # <<>>
         sent == IF client.editing # Null
                 THEN Save("PUT", client.editing.s, JsonStringify(client.form), client.form, during)
                 ELSE Save("POST", i, JsonStringify([client.form EXCEPT !.id = Str(i)]),
                           [client.form EXCEPT !.id = Str(i)], during)
     IN client' = [client EXCEPT !.saving = TRUE, !.saves = Append(client.saves, sent)]
  /\ UNCHANGED <<table, files, now, last, calls>>

\* the server answers the save request i of the page
ServeSave(i) ==
  /\ i \in 1..Len(client.saves) /\ client.saves[i].stage = "sent"
  /\ LET r == client.saves[i]
         ok == IF r.method = "POST" THEN PostAccepted(table, r.body, now)
               ELSE PutAccepted(table, r.path, r.body)
     IN /\ table' = IF ~ok THEN table
                    ELSE IF r.method = "POST" THEN Append(table, InsertRow(r.body, now))
                    ELSE UpdateTable(table, r.path, r.body)
        /\ client' = [client EXCEPT !.saves[i].stage = "answered",
                                    !.saves[i].status = IF ~ok THEN 500
                                                        ELSE IF r.method = "POST" THEN 201 ELSE 200]
  /\ UNCHANGED <<files, now, last, calls>>

\* the list after the answer to the save r was ok
BikesAfterSave(bikes, r) ==
  IF r.method = "PUT"
  THEN [k \in 1..Len(bikes) |->
          IF bikes[k].id = Str(r.path) THEN [r.local EXCEPT !.id = bikes[k].id] ELSE bikes[k]]
  ELSE <<r.local>> \o bikes

\* handleAddOrEdit after its await: the list and the toast when response.ok,
\* closeForm() in either case, setSaving(false)
SaveDone(i) ==
  /\ i \in 1..Len(client.saves) /\ client.saves[i].stage = "answered"
  /\ LET r == client.saves[i]
         c == Closed(client)
     IN client' = [c EXCEPT !.bikes = IF IsOk(r.status) THEN BikesAfterSave(c.bikes, r) ELSE c.bikes,
                            !.toast = IF IsOk(r.status) THEN "success" ELSE c.toast,
                            !.saving = FALSE,
                            !.saves = Remove(c.saves, i)]
  /\ UNCHANGED <<table, files, now, last, calls>>

\* the fetch of handleAddOrEdit rejects before the request reaches the
\* server: the catch block and setSaving(false)
SaveThrows(i) ==
  /\ i \in 1..Len(client.saves) /\ client.saves[i].stage = "sent"
  /\ client' = [client EXCEPT !.toast = "error", !.saving = FALSE,
                              !.saves = Remove(client.saves, i)]
  /\ UNCHANGED <<table, files, now, last, calls>>

\* handleDelete up to its await, for the card at the place k of the list and
\* a confirmed dialog; the cards are under the form while it is open
ClickDelete(k) ==
  /\ ~client.loading /\ ~client.open
  /\ k \in 1..Len(client.bikes) /\ client.bikes[k].id.t = "string" /\ client.bikes[k].id.s # ""
  /\ Len(client.dels) < MaxInFlight
  /\ client' = [client EXCEPT !.dels = Append(client.dels, Delete(client.bikes[k].id.s))]
  /\ UNCHANGED <<table, files, now, last, calls>>

\* the server answers the delete request i of the page
ServeDelete(i) ==
  /\ i \in 1..Len(client.dels) /\ client.dels[i].stage = "sent"
  /\ table' = DeleteFrom(table, client.dels[i].id)
  /\ files' = FilesAfterDelete(files, table, client.dels[i].id)
  /\ client' = [client EXCEPT !.dels[i].stage = "answered",
                              !.dels[i].status = IF Changes(table, client.dels[i].id) > 0
                                                 THEN 200 ELSE 404]
  /\ UNCHANGED <<now, last, calls>>

\* handleDelete after its await
DeleteDone(i) ==
  /\ i \in 1..Len(client.dels) /\ client.dels[i].stage = "answered"
  /\ LET r == client.dels[i]
     IN client' = [client EXCEPT
                     !.bikes = IF IsOk(r.status)
                               THEN SelectSeq(client.bikes, LAMBDA b : b.id # Str(r.id))
                               ELSE client.bikes,
                     !.toast = IF IsOk(r.status) THEN "success" ELSE "error",
                     !.dels = Remove(client.dels, i)]
  /\ UNCHANGED <<table, files, now, last, calls>>

\* the file the user picks, by its place in Uploads: a small picture with a
\* name, which readAsDataURL turns into a data URI
PickedFile == 1

\* handleFileUpload up to readAsDataURL: setUploading(true); the file input is
\* part of the open form and takes a file while an upload is in flight
PickFile ==
  /\ client.open
  /\ Len(client.uploads) < MaxInFlight
  /\ client' = [client EXCEPT !.uploading = TRUE, !.uploads = Append(client.uploads, FileUpload)]
  /\ UNCHANGED <<table, files, now, last, calls>>

\* reader.onload up to its await: the fetch of /api/upload
ReadDone(i) ==
  /\ i \in 1..Len(client.uploads) /\ client.uploads[i].stage = "reading"
  /\ client' = [client EXCEPT !.uploads[i].stage = "sent"]
  /\ UNCHANGED <<table, files, now, last, calls>>

\* a reader.onerror that leaves the flag set
AfterReadErrorStuck(c, i) == [c EXCEPT !.uploads = Remove(c.uploads, i)]

\* the state after reader.onerror: setUploading(false)
AfterReadError(c, i) == [c EXCEPT !.uploading = FALSE, !.uploads = Remove(c.uploads, i)]

\* reader.onerror
ReadFails(i) ==
  /\ i \in 1..Len(client.uploads) /\ client.uploads[i].stage = "reading"
  /\ client' = AfterReadError(client, i)
  /\ UNCHANGED <<table, files, now, last, calls>>

\* the server answers the upload request i of the page
ServeUpload(i, outcome) ==
  /\ i \in 1..Len(client.uploads) /\ client.uploads[i].stage = "sent"
  /\ LET name == UniqueName(now, Least(Randoms), FileExts[PickedFile])
     IN IF outcome = "written"
        THEN /\ files' = WriteFile(files, name, Buffers[PickedFile])
             /\ client' = [client EXCEPT !.uploads[i].stage = "answered",
                                         !.uploads[i].status = 200,
                                         !.uploads[i].url = ImageUrl(name)]
        ELSE /\ files' = files
             /\ client' = [client EXCEPT !.uploads[i].stage = "answered",
                                         !.uploads[i].status = 500]
  /\ UNCHANGED <<table, now, last, calls>>

\* the state after the finally block of reader.onload: setUploading(false)
AfterUpload(c, i) == [c EXCEPT !.uploading = FALSE, !.uploads = Remove(c.uploads, i)]

\* reader.onload after its await: setFormData(prev => ({ ...prev, image }))
\* and the toast when response.ok, an alert otherwise, then the finally block
UploadDone(i) ==
  /\ i \in 1..Len(client.uploads) /\ client.uploads[i].stage = "answered"
  /\ LET r == client.uploads[i]
         c == IF IsOk(r.status)
              THEN [client EXCEPT !.form.image = Str(r.url), !.toast = "success"]
              ELSE client
     IN client' = AfterUpload(c, i)
  /\ UNCHANGED <<table, files, now, last, calls>>

\* the fetch of reader.onload rejects before the request reaches the server:
\* the catch block and the finally block
UploadThrows(i) ==
  /\ i \in 1..Len(client.uploads) /\ client.uploads[i].stage = "sent"
  /\ client' = AfterUpload(client, i)
  /\ UNCHANGED <<table, files, now, last, calls>>

\* the timer of showToast
ToastExpires ==
  /\ client.toast # "none"
  /\ client' = [client EXCEPT !.toast = "none"]
  /\ UNCHANGED <<table, files, now, last, calls>>

\* the list of the page: adding, editing and deleting records, one page and
\* the server behind it
ListNext ==
  \/ FetchBikes
  \/ OpenAdd
  \/ \E k \in 1..Cardinality(NewIds) : OpenEdit(k)
  \/ \E v \in FormNames : TypeName(v)
  \/ \E i \in NewIds : Submit(i)
  \/ \E i \in 1..MaxInFlight : ServeSave(i)
  \/ \E i \in 1..MaxInFlight : SaveDone(i)
  \/ \E k \in 1..Cardinality(NewIds) : ClickDelete(k)
  \/ \E i \in 1..MaxInFlight : ServeDelete(i)
  \/ \E i \in 1..MaxInFlight : DeleteDone(i)
  \/ TickSecond

ListSpec == Init /\ [][ListNext]_vars

\* the form of the page: filling it, uploading pictures and saving
FormNext ==
  \/ FetchBikes
  \/ OpenAdd
  \/ \E v \in FormNames : TypeName(v)
  \/ ClearYear
  \/ CloseForm
  \/ \E i \in {"a"} : Submit(i)
  \/ \E i \in 1..MaxInFlight : ServeSave(i)
  \/ \E i \in 1..MaxInFlight : SaveDone(i)
  \/ \E i \in 1..MaxInFlight : SaveThrows(i)
  \/ PickFile
  \/ \E i \in 1..MaxInFlight : ReadDone(i)
  \/ \E i \in 1..MaxInFlight : ReadFails(i)
  \/ \E i \in 1..MaxInFlight, outcome \in {"written", "openFails"} : ServeUpload(i, outcome)
  \/ \E i \in 1..MaxInFlight : UploadDone(i)
  \/ \E i \in 1..MaxInFlight : UploadThrows(i)
  \/ ToastExpires

FormSpec == Init /\ [][FormNext]_vars

\* a step of an upload in flight: the read ends in onload or onerror, the
\* request is answered or its fetch rejects, the continuation runs
UploadStep ==
  \E i \in 1..MaxInFlight :
    \/ ReadDone(i) \/ ReadFails(i) \/ UploadThrows(i) \/ UploadDone(i)
    \/ \E outcome \in {"written", "openFails"} : ServeUpload(i, outcome)

\* a step of a save in flight
SaveStep == \E i \in 1..MaxInFlight : ServeSave(i) \/ SaveThrows(i) \/ SaveDone(i)

\* every read and every request completes
Completion == WF_vars(UploadStep) /\ WF_vars(SaveStep)

\* the flags of the page: one record is added while pictures are uploaded
FlagNext ==
  \/ FetchBikes
  \/ OpenAdd
  \/ \E v \in FormNames : TypeName(v)
  \/ \E i \in {"a"} : Submit(i)
  \/ PickFile
  \/ UploadStep
  \/ SaveStep

FlagSpec == Init /\ [][FlagNext]_vars /\ Completion

(***************************************************************************)
(* Properties of the record routes.                                        *)
(***************************************************************************)
IsText(v) == v.t = "string"
IsAbsent(v) == v.t \in {"undefined", "null"}

\* a record of the data model with every field present
ValidRecord(b) ==
  /\ IsText(b.id) /\ IsText(b.name) /\ IsText(b.category) /\ b.year.t = "number"
  /\ IsText(b.description) /\ IsText(b.modifications) /\ IsText(b.image)
  /\ b.specs.t = "object"
  /\ IsText(b.specs.engine) /\ IsText(b.specs.power) /\ IsText(b.specs.torque)
  /\ IsText(b.specs.weight) /\ IsText(b.specs.topSpeed)

\* a record of the data model that may leave fields out
TypedRecord(b) ==
  /\ IsText(b.name) \/ IsAbsent(b.name)
  /\ IsText(b.category) \/ IsAbsent(b.category)
  /\ b.year.t = "number" \/ IsAbsent(b.year)
  /\ IsText(b.description) \/ IsAbsent(b.description)
  /\ IsText(b.modifications) \/ IsAbsent(b.modifications)
  /\ IsText(b.image) \/ IsAbsent(b.image)
  /\ b.specs.t = "object"
  /\ IsText(b.specs.engine) \/ IsAbsent(b.specs.engine)
  /\ IsText(b.specs.power) \/ IsAbsent(b.specs.power)
  /\ IsText(b.specs.torque) \/ IsAbsent(b.specs.torque)
  /\ IsText(b.specs.weight) \/ IsAbsent(b.specs.weight)
  /\ IsText(b.specs.topSpeed) \/ IsAbsent(b.specs.topSpeed)

\* the positions of the list that carry the id i
Listed(tbl, i) == {k \in 1..Len(ListAll(tbl)) : ListAll(tbl)[k].id = Str(i)}

RowsOf(tbl, i) == {k \in 1..Len(tbl) : tbl[k].id = SqlText(i)}

\* what a reader sees for a value the writer supplied or left out
Shown(v) == IF v.t = "undefined" THEN Null ELSE v

\* C1: after a successful create of a record with all seven scalar fields and
\* all five specs fields present, the list holds exactly one entry with the
\* id of the record, and that entry equals the record field for field, its
\* specs sub-object included.
C1_CreateListRoundTrip ==
  (last.op = "create" /\ last.status = 201 /\ ValidRecord(last.bike)) =>
    /\ Cardinality(Listed(table, last.bike.id.s)) = 1
    /\ \A k \in Listed(table, last.bike.id.s) : ListAll(table)[k] = last.bike

C1_Witness ==
  /\ last.op = "create" /\ last.status = 201 /\ ValidRecord(last.bike)
  /\ Len(last.before) > 0
  /\ ListAll(table)[1] = last.bike

\* C2: a create whose id is the id of a row of the table is not answered 201
\* and leaves the table as it was: the same rows with the same columns,
\* created_at included, and the same row count.
C2_DuplicateIdRejected ==
  (last.op = "create" /\ IsText(last.bike.id) /\ RowsOf(last.before, last.bike.id.s) # {}) =>
    /\ last.status # 201
    /\ table = last.before

C2_Witness ==
  /\ last.op = "create" /\ IsText(last.bike.id) /\ ValidRecord(last.bike)
  /\ \E k \in RowsOf(last.before, last.bike.id.s) :
       /\ last.before[k].name # SqlText(last.bike.name.s)
       /\ last.before[k].created_at # CurrentTimestamp(now)
  /\ last.status = 500

\* C3: an update whose path id matches no row is not answered 200 and leaves
\* the table as it was.
C3_UpdateOfMissingIdFails ==
  (last.op = "update" /\ RowsOf(last.before, last.id) = {}) =>
    /\ last.status # 200
    /\ table = last.before

\* C4: a delete, through either route, whose path id matches no row is
\* answered 404 and leaves the table as it was.
C4_DeleteOfMissingId ==
  (last.op \in {"delete", "deletePost"} /\ RowsOf(last.before, last.id) = {}) =>
    /\ last.status = 404
    /\ table = last.before

C4_Witness ==
  /\ last.op = "deletePost" /\ RowsOf(last.before, last.id) = {}
  /\ Len(last.before) > 0
  /\ last.status = 404

\* C5: after a successful update of an existing row with a record of the data
\* model, the list shows under the path id the values of the record for name,
\* category, year, description, modifications, image and the five specs
\* fields, and null for every field the record leaves out.
C5_UpdateReplacesEveryField ==
  (last.op = "update" /\ last.status = 200 /\ TypedRecord(last.bike)
     /\ RowsOf(last.before, last.id) # {}) =>
    /\ Cardinality(Listed(table, last.id)) = 1
    /\ \A k \in Listed(table, last.id) :
         LET e == ListAll(table)[k] IN
           /\ e.name = Shown(last.bike.name)
           /\ e.category = Shown(last.bike.category)
           /\ e.year = Shown(last.bike.year)
           /\ e.description = Shown(last.bike.description)
           /\ e.modifications = Shown(last.bike.modifications)
           /\ e.image = Shown(last.bike.image)
           /\ e.specs.engine = Shown(last.bike.specs.engine)
           /\ e.specs.power = Shown(last.bike.specs.power)
           /\ e.specs.torque = Shown(last.bike.specs.torque)
           /\ e.specs.weight = Shown(last.bike.specs.weight)
           /\ e.specs.topSpeed = Shown(last.bike.specs.topSpeed)

C5_Witness ==
  /\ last.op = "update" /\ last.status = 200 /\ TypedRecord(last.bike)
  /\ last.bike.description.t = "undefined" /\ last.bike.specs.engine.t = "undefined"
  /\ \E k \in RowsOf(last.before, last.id) :
       /\ IsText(last.before[k].description) /\ IsText(last.before[k].engine)
       /\ table[k].description = SqlNull /\ table[k].engine = SqlNull

\* C6: an update, answered 200 or 500, leaves the id and the created_at of
\* every row as they were, whatever id the body carries.
C6_UpdateKeepsIdAndCreatedAt ==
  (last.op = "update") =>
    /\ Len(table) = Len(last.before)
    /\ \A k \in 1..Len(table) :
         /\ table[k].id = last.before[k].id
         /\ table[k].created_at = last.before[k].created_at

C6_Witness ==
  /\ last.op = "update" /\ last.status = 200
  /\ IsText(last.bike.id) /\ last.bike.id.s # last.id
  /\ Len(table) = 2
  /\ \E k \in RowsOf(last.before, last.id) :
       /\ table[k] # last.before[k]
       /\ table[k].created_at # CurrentTimestamp(now)

\* the rows of a table, without their order
RowSet(tbl) == {tbl[k] : k \in 1..Len(tbl)}

PlaceOf(tbl, k) ==
  CHOOSE j \in 1..Len(ListAll(tbl)) : ListAll(tbl)[j] = FormatBike(tbl[k])

\* the list holds every row of the table exactly once
ListedOnce(tbl) ==
  /\ Len(ListAll(tbl)) = Len(tbl)
  /\ \A k \in 1..Len(tbl) :
       Cardinality({j \in 1..Len(ListAll(tbl)) : ListAll(tbl)[j] = FormatBike(tbl[k])}) = 1

\* C14 as claimed: the list holds every row exactly once, and of two rows the
\* one created later (the later in rowid order) comes earlier in the list.
C14_LaterCreatedFirst ==
  /\ ListedOnce(table)
  /\ \A i, j \in 1..Len(table) : i < j => PlaceOf(table, j) < PlaceOf(table, i)

\* C14 as amended: the list holds every row exactly once, and of two rows
\* created in different seconds the one created later comes earlier in the
\* list.
C14_LaterSecondFirst ==
  /\ ListedOnce(table)
  /\ \A i, j \in 1..Len(table) :
       (i < j /\ table[i].created_at # table[j].created_at) =>
         PlaceOf(table, j) < PlaceOf(table, i)

C14_Witness ==
  /\ last.op = "list" /\ last.status = 200 /\ last.before = table
  /\ Len(table) = 2 /\ table[1].created_at < table[2].created_at
  /\ Len(last.body) = 2
  /\ last.body[1] = FormatBike(table[2]) /\ last.body[2] = FormatBike(table[1])

\* the keys the specs sub-object of a body leaves out
Omitted(bike) == {f \in SpecNames : bike.specs[f].t = "undefined"}

\* the id a create or an update is about
TargetId(a) == IF a.op = "create" THEN a.bike.id.s ELSE a.id

\* C15: a create under a new id and an update of an existing row, with a
\* record whose specs sub-object leaves out any of its five keys, are answered
\* with success, and afterwards the row holds NULL in the column of every key
\* left out and the list shows null for it, whatever the row held before.
C15_OmittedSpecsAreNull ==
  (/\ last.op \in {"create", "update"}
   /\ last.bike.specs.t = "object"
   /\ IsText(last.bike.id) /\ IsText(last.bike.name) /\ IsText(last.bike.category)
   /\ last.bike.year.t = "number"
   /\ last.op = "create" => RowsOf(last.before, TargetId(last)) = {}
   /\ last.op = "update" => RowsOf(last.before, TargetId(last)) # {}) =>
    /\ last.status \in {200, 201}
    /\ RowsOf(table, TargetId(last)) # {}
    /\ \A k \in RowsOf(table, TargetId(last)), f \in Omitted(last.bike) :
         /\ table[k][f] = SqlNull
         /\ FormatBike(table[k]).specs[f] = Null
    /\ \A k \in Listed(table, TargetId(last)), f \in Omitted(last.bike) :
         ListAll(table)[k].specs[f] = Null

C15_Witness ==
  /\ last.op = "update" /\ last.status = 200
  /\ Omitted(last.bike) = SpecNames
  /\ \E k \in RowsOf(last.before, last.id) :
       /\ \A f \in SpecNames : IsText(last.before[k][f])
       /\ \A f \in SpecNames : table[k][f] = SqlNull
       /\ \A f \in SpecNames : ListAll(table)[1].specs[f] = Null

\* C16: a create whose body leaves out the id, the name, the category or the
\* year is not answered 201 and leaves the table as it was.
C16_MissingFieldRejected ==
  (/\ last.op = "create"
   /\ \/ IsAbsent(last.bike.id) \/ IsAbsent(last.bike.name)
      \/ IsAbsent(last.bike.category) \/ IsAbsent(last.bike.year)) =>
    /\ last.status # 201
    /\ table = last.before

\* C17: every row of the table holds a value other than NULL in id, name,
\* category and year.
C17_RequiredColumnsNotNull ==
  \A k \in 1..Len(table) :
    /\ table[k].id # SqlNull /\ table[k].name # SqlNull
    /\ table[k].category # SqlNull /\ table[k].year # SqlNull

\* C18: no two rows of the table hold the same id.
C18_IdUnique ==
  \A i, j \in 1..Len(table) : i # j => table[i].id # table[j].id

\* C19: of two updates of one row that are both answered 200, the one the
\* server ran last decides the row: after it the row holds, in every column an
\* update writes, what a create of the same record would have stored, and
\* nothing of the record of the update before it.
C19_LastUpdateWins ==
  (last.op = "update" /\ last.status = 200) =>
    \A k \in RowsOf(last.before, last.id) :
      table[k] = [InsertRow(last.bike, now) EXCEPT !.id = last.before[k].id,
                                                  !.created_at = last.before[k].created_at]

\* the row b held the record Part, which only an update writes under that id,
\* and a second update has replaced every one of its columns
C19_Witness ==
  /\ last.op = "update" /\ last.status = 200 /\ last.id = "b"
  /\ last.bike = Full(Str("a"))
  /\ \E k \in RowsOf(last.before, "b") :
       /\ last.before[k] = UpdateRow(last.before[k], Part(Str("a")))
       /\ \A f \in {"name", "category", "year", "description", "modifications", "image"}
                    \cup SpecNames : table[k][f] # last.before[k][f]

\* the calls of the record routes that name the id i, each with its route,
\* its path id and the place of its body in Bodies
CallsOn(i) ==
  {[op |-> "create", p |-> i, b |-> b] : b \in {c \in 1..Len(Bodies) : Bodies[c].id = Str(i)}}
    \cup {[op |-> "update", p |-> i, b |-> b] : b \in 1..Len(Bodies)}
    \cup {[op |-> o, p |-> i, b |-> 1] : o \in {"delete", "deletePost"}}

\* the table after the call c, and the status it is answered with
ResultOf(tbl, c) ==
  CASE c.op = "create" ->
         IF PostAccepted(tbl, Bodies[c.b], now)
         THEN [table |-> Append(tbl, InsertRow(Bodies[c.b], now)), status |-> 201]
         ELSE [table |-> tbl, status |-> 500]
    [] c.op = "update" ->
         IF PutAccepted(tbl, c.p, Bodies[c.b])
         THEN [table |-> UpdateTable(tbl, c.p, Bodies[c.b]), status |-> 200]
         ELSE [table |-> tbl, status |-> 500]
    [] c.op = "deletePost" ->
         [table |-> DeleteFrom(tbl, c.p), status |-> IF Changes(tbl, c.p) > 0 THEN 200 ELSE 404]
    [] OTHER ->
         [table |-> DeleteFrom(tbl, c.p), status |-> IF Changes(tbl, c.p) > 0 THEN 204 ELSE 404]

RowsWithId(tbl, i) == {r \in RowSet(tbl) : r.id = SqlText(i)}

\* C20: from every table the routes reach, a call about the id a and a call
\* about the id b leave the same rows in either order, each is answered with
\* the same status whether it runs first or second, and neither changes the
\* rows of the other id.
C20_DifferentIdsIndependent ==
  LET first == [c \in CallsOn("a") \cup CallsOn("b") |-> ResultOf(table, c)]
  IN /\ \A c \in CallsOn("a") : RowsWithId(first[c].table, "b") = RowsWithId(table, "b")
     /\ \A d \in CallsOn("b") : RowsWithId(first[d].table, "a") = RowsWithId(table, "a")
     /\ \A c \in CallsOn("a"), d \in CallsOn("b") :
          LET cd == ResultOf(first[c].table, d)
              dc == ResultOf(first[d].table, c)
          IN /\ RowSet(cd.table) = RowSet(dc.table)
             /\ cd.status = first[d].status
             /\ dc.status = first[c].status

\* an update of the row a has been answered 200 next to a row b, which is as
\* it was, and a delete of b is answered the same before and after it
C20_Witness ==
  /\ last.op = "update" /\ last.status = 200 /\ last.id = "a"
  /\ Len(table) = 2
  /\ \E k \in RowsOf(last.before, "a") : table[k] # last.before[k]
  /\ \E k \in RowsOf(last.before, "b") : table[k] = last.before[k]
  /\ ResultOf(last.before, [op |-> "delete", p |-> "b", b |-> 1]).status = 204
  /\ ResultOf(table, [op |-> "delete", p |-> "b", b |-> 1]).status = 204

\* the ids of the rows, in rowid order
IdsOf(tbl) == [k \in 1..Len(tbl) |-> tbl[k].id]

IdSet(tbl) == {tbl[k].id : k \in 1..Len(tbl)}

\* C24: a create answered 201 adds one row and the id of its body to the ids
\* of the table; a delete answered with success removes one row and the path
\* id; every other call (an update, a list, a create or a delete that fails)
\* leaves the ids of the rows and their number as they were.
C24_IdsChangeByCreateAndDelete ==
  /\ (last.op = "create" /\ last.status = 201) =>
       /\ Len(table) = Len(last.before) + 1
       /\ IdSet(table) = IdSet(last.before) \cup {SqlText(last.bike.id.s)}
       /\ SqlText(last.bike.id.s) \notin IdSet(last.before)
  /\ (last.op \in {"delete", "deletePost"} /\ last.status \in {200, 204}) =>
       /\ Len(table) = Len(last.before) - 1
       /\ IdSet(table) = IdSet(last.before) \ {SqlText(last.id)}
       /\ SqlText(last.id) \in IdSet(last.before)
  /\ (\/ last.op \in {"update", "list"}
      \/ last.op = "create" /\ last.status # 201
      \/ last.op \in {"delete", "deletePost"} /\ last.status \notin {200, 204}) =>
       IdsOf(table) = IdsOf(last.before)

\* an update of an id no row has is answered 200 and has not inserted a row
C24_Witness ==
  /\ last.op = "update" /\ last.status = 200
  /\ Len(last.before) = 1 /\ RowsOf(last.before, last.id) = {}
  /\ IsText(last.bike.id) /\ last.bike.id.s = last.id
  /\ IdsOf(table) = IdsOf(last.before)

\* the list shows the fields of the record b under the id i
ShownAs(tbl, i, b) ==
  /\ Listed(tbl, i) # {}
  /\ \A k \in Listed(tbl, i) :
       LET e == ListAll(tbl)[k] IN
         /\ e.name = Shown(b.name) /\ e.category = Shown(b.category) /\ e.year = Shown(b.year)
         /\ e.description = Shown(b.description) /\ e.modifications = Shown(b.modifications)
         /\ e.image = Shown(b.image)
         /\ e.specs = [f \in DOMAIN b.specs |-> IF f = "t" THEN b.specs[f] ELSE Shown(b.specs[f])]

\* C25 as claimed: the record an update of an existing row returns with 200
\* has the path id as its id, and its fields are the fields the list shows
\* under the path id, whatever id the body carries.
C25_EchoDescribesRow ==
  (last.op = "update" /\ last.status = 200 /\ TypedRecord(last.bike)
     /\ RowsOf(last.before, last.id) # {}) =>
    /\ last.body.id = Str(last.id)
    /\ ShownAs(table, last.id, last.body)

\* C25 as amended: the record an update returns with 200 is the body as it
\* came, so its id is the id of the body, the path id or another or none; when
\* a row has the path id, its fields are the fields the list shows under the
\* path id, null standing for a field the body leaves out.
C25_EchoIsBody ==
  (last.op = "update" /\ last.status = 200) =>
    /\ last.body = last.bike
    /\ (TypedRecord(last.bike) /\ RowsOf(last.before, last.id) # {}) =>
         ShownAs(table, last.id, last.body)

C25_Witness ==
  /\ last.op = "update" /\ last.status = 200
  /\ last.bike = Part(Undefined) /\ last.id = "b"
  /\ \E k \in RowsOf(last.before, "b") : last.before[k].name = SqlText("n1")
  /\ \E k \in Listed(table, "b") :
       /\ ListAll(table)[k].id = Str("b") /\ last.body.id = Undefined
       /\ ListAll(table)[k].name = last.body.name

(***************************************************************************)
(* Properties of the upload route.                                         *)
(***************************************************************************)
LastCall == calls[Len(calls)]

\* the bytes of the payload a body carries: its base64 text, decoded
Payload(k) == DecodeBase64(Uploads[k].b64, Uploads[k].run)

Succeeded(c) == calls[c].status = 200

\* the call c reached fs.writeFileSync and the file was opened
Wrote(c) == calls[c].name # "" /\ calls[c].outcome # "openFails"

Served(name) == ServeStatic(files, ImageUrl(name))

\* C7: an upload whose payload is exactly 5 MiB is answered 200 and stored
\* (when the write succeeds), and an upload whose payload is one byte larger
\* is answered 413 and writes no file.
C7_SizeCeiling ==
  calls # <<>> =>
    /\ (Size(Payload(LastCall.upload)) = FileSizeLimit /\ LastCall.outcome = "written") =>
         /\ LastCall.status = 200
         /\ Served(LastCall.name) = [status |-> 200, bytes |-> Payload(LastCall.upload)]
    /\ Size(Payload(LastCall.upload)) = FileSizeLimit + 1 =>
         /\ LastCall.status = 413
         /\ LastCall.name = ""

\* C8 as claimed: when every call so far succeeded, any two of them returned
\* different references, and each reference serves the bytes of its own call.
C8_AlwaysDistinctReferences ==
  (\A c \in 1..Len(calls) : Succeeded(c)) =>
    /\ \A i, j \in 1..Len(calls) : i < j => calls[i].name # calls[j].name
    /\ \A i \in 1..Len(calls) :
         Served(calls[i].name) = [status |-> 200, bytes |-> Buffers[calls[i].upload]]

\* C8 as amended: two successful calls return different references unless they
\* ran in the same millisecond, drew the same random integer and have the same
\* extension; and a reference whose name no later call wrote again serves the
\* bytes its own call wrote.
C8_DistinctUnlessSameDraw ==
  /\ \A i, j \in 1..Len(calls) :
       (i < j /\ Succeeded(i) /\ Succeeded(j)
          /\ <<calls[i].at, calls[i].rnd, FileExts[calls[i].upload]>>
               # <<calls[j].at, calls[j].rnd, FileExts[calls[j].upload]>>) =>
         calls[i].name # calls[j].name
  /\ \A i \in 1..Len(calls) :
       (Succeeded(i) /\ \A j \in (i + 1)..Len(calls) : ~(Wrote(j) /\ calls[j].name = calls[i].name)) =>
         Served(calls[i].name) = [status |-> 200, bytes |-> Buffers[calls[i].upload]]

C8_Witness ==
  /\ Len(calls) = 2 /\ Succeeded(1) /\ Succeeded(2)
  /\ calls[1].upload = calls[2].upload /\ calls[1].at = calls[2].at
  /\ calls[1].rnd # calls[2].rnd
  /\ calls[1].name # calls[2].name
  /\ Served(calls[1].name).bytes = Served(calls[2].name).bytes

\* C9: after an upload answered 200, GET of the returned path answers with
\* exactly the bytes of the base64 text of the image, whatever data-URI header
\* came before it.
C9_UploadRoundTrip ==
  (calls # <<>> /\ LastCall.status = 200) =>
    Served(LastCall.name) = [status |-> 200, bytes |-> Payload(LastCall.upload)]

\* C10: every file of the uploads directory holds the complete buffer of a
\* call that was answered 200 with its name.
C10_NoPartialFile ==
  \A n \in DOMAIN files :
    \E c \in 1..Len(calls) :
      /\ calls[c].name = n
      /\ Succeeded(c)
      /\ files[n] = Buffers[calls[c].upload]

(***************************************************************************)
(* Properties of the uploads directory under both kinds of routes.         *)
(***************************************************************************)
ServedBy(dir, name) == ServeStatic(dir, ImageUrl(name))

\* the step is an upload call that is answered 200
UploadAnswered200 == Len(calls') > Len(calls) /\ calls'[Len(calls')].status = 200

\* the step is an upload call that drew the name n
UploadDrew(n) == Len(calls') > Len(calls) /\ calls'[Len(calls')].name = n

\* C11 as claimed: no step that is a record call or an upload call answered
\* 200 changes what is served at a reference an earlier upload call returned.
C11_AssetNeverChanges ==
  [][(Len(calls') = Len(calls) \/ UploadAnswered200) =>
       \A c \in 1..Len(calls) :
         Succeeded(c) => ServedBy(files', calls[c].name) = ServedBy(files, calls[c].name)]_vars

\* C11 as amended: what is served at a reference an upload call returned is
\* the same after every record call and after every upload call that does not
\* draw the name of that reference again.
C11_AssetChangesOnlyUnderItsName ==
  [][\A c \in 1..Len(calls) :
       (Succeeded(c) /\ ~UploadDrew(calls[c].name)) =>
         ServedBy(files', calls[c].name) = ServedBy(files, calls[c].name)]_vars

C11_Witness ==
  /\ Len(calls) = 2 /\ Succeeded(1) /\ Wrote(2)
  /\ calls[2].name # calls[1].name /\ calls[2].upload # calls[1].upload
  /\ last.op = "update" /\ last.status = 200
  /\ \E k \in RowsOf(last.before, last.id) :
       /\ last.before[k].image = SqlText(ImageUrl(calls[1].name))
       /\ table[k].image = SqlNull
  /\ Served(calls[1].name) = [status |-> 200, bytes |-> Buffers[calls[1].upload]]

\* C12: a create, an update and a delete through either route, answered with
\* success or with an error, leave the uploads directory as it was: the same
\* files with the same contents.
C12_RecordCallsKeepFiles ==
  [][last' # last => files' = files]_vars

C12_Witness ==
  /\ last.op \in {"delete", "deletePost"} /\ last.status \in {200, 204}
  /\ \E k \in RowsOf(last.before, last.id) :
       /\ last.before[k].image.t = "string"
       /\ ServeStatic(files, last.before[k].image.s).status = 200
  /\ table = <<>>

(***************************************************************************)
(* Properties of the answers of the upload route and of all routes.        *)
(***************************************************************************)
\* C21: what a request that starts after an answer of success sees: after a
\* 201 the list holds the created record's id; after a 200 of an update that
\* matched a row, the row holds the body's name; after a 200 or 204 of a
\* delete, no row has the id; after a 200 of an upload, GET of the returned
\* reference answers 200 with the bytes the call wrote. This holds whatever
\* calls of the other kind of route are answered in between.
C21_AnswerAfterWrite ==
  /\ (last.op = "create" /\ last.status = 201 /\ IsText(last.bike.id)) =>
       Listed(table, last.bike.id.s) # {}
  /\ (last.op = "update" /\ last.status = 200) =>
       \A k \in RowsOf(last.before, last.id) :
         table[k].name = TextAffinity(BindParam(last.bike.name))
  /\ (last.op \in {"delete", "deletePost"} /\ last.status \in {200, 204}) =>
       Listed(table, last.id) = {}
  /\ (calls # <<>> /\ LastCall.status = 200) =>
       ServeStatic(files, ImageUrl(LastCall.name))
         = [status |-> 200, bytes |-> Buffers[LastCall.upload]]

C21_Witness ==
  /\ last.op = "create" /\ last.status = 201
  /\ Listed(table, last.bike.id.s) = {1}
  /\ Len(calls) = 2 /\ calls[1].status = 500 /\ LastCall.status = 200
  /\ ServeStatic(files, last.bike.image.s) = [status |-> 200, bytes |-> Buffers[LastCall.upload]]

\* the body of the upload u has no image or no file name
Lacks(u) == (u.header = <<>> /\ u.b64 = <<>> /\ u.run = 0) \/ u.fileName = <<>>

\* the step is a call of the upload route with the body u
UploadCalled(k) == Len(calls') = Len(calls) + 1 /\ calls'[Len(calls')].upload = k

\* C22: a call of the upload route whose body has no image or no file name is
\* answered 400 and leaves the uploads directory as it was.
C22_MissingFieldRejected ==
  [][\A k \in 1..Len(Uploads) :
       (UploadCalled(k) /\ Lacks(Uploads[k])) =>
         /\ calls'[Len(calls')].status = 400
         /\ files' = files]_vars

C22_Witness ==
  /\ Len(calls) = 2 /\ Succeeded(1)
  /\ Uploads[LastCall.upload].fileName = <<>> /\ Uploads[LastCall.upload].b64 # <<>>
  /\ LastCall.status = 400
  /\ DOMAIN files = {calls[1].name}

\* the text of a file name from its last . on, or .jpg when it has no .
DotSuffix(cs) ==
  LET dots == {k \in 1..Len(cs) : cs[k] = "."}
  IN IF dots = {} THEN ".jpg"
     ELSE Join(SubSeq(cs, CHOOSE k \in dots : \A j \in dots : j <= k, Len(cs)))

\* C23: the reference of every call answered 200 is /uploads/, the
\* millisecond of the call, a hyphen, the random integer of the call, and the
\* extension of the file name (.jpg when it has none), and GET of exactly that
\* path finds a file.
C23_ReferenceForm ==
  \A c \in 1..Len(calls) :
    Succeeded(c) =>
      LET ref == "/uploads/" \o NatText(calls[c].at) \o "-" \o NatText(calls[c].rnd)
                   \o DotSuffix(Uploads[calls[c].upload].fileName)
      IN /\ ImageUrl(calls[c].name) = ref
         /\ ServeStatic(files, ref).status = 200

C23_Witness ==
  /\ Len(calls) = 2 /\ Succeeded(1) /\ Succeeded(2)
  /\ calls[1].at = 1
  /\ ImageUrl(calls[1].name) = "/uploads/1-1000000000.jpg"
  /\ ImageUrl(calls[2].name) = "/uploads/1-0.svg"

(***************************************************************************)
(* Properties of the page                                                  *)
(***************************************************************************)
\* every request of the page has been answered and its continuation has run
Settled == ~client.loading /\ client.saves = <<>> /\ client.dels = <<>>

\* C26 as claimed: once the page has fetched the list and every add, edit and
\* delete of the page has been answered, the list the page holds is the list
\* a fresh GET returns: the same records in the same order.
C26_LocalListIsFreshList == Settled => client.bikes = ListAll(table)

\* the step is the continuation of the answered upload i
UploadApplied(i) ==
  /\ i \in 1..Len(client.uploads) /\ client.uploads[i].stage = "answered"
  /\ client'.uploads = Remove(client.uploads, i)

\* C27 as claimed: the answer to an upload changes the image of the form the
\* upload was started from only: when that form was closed and a form is open
\* again by the time the answer is handled, the image of the form data now in
\* use stays as it is.
C27_UploadAppliedToItsForm ==
  [][\A i \in 1..MaxInFlight :
       (UploadApplied(i) /\ client.uploads[i].moved /\ client.open)
         => client'.form.image = client.form.image]_vars

\* the step is the continuation of the save i answered with a status that
\* is not 2xx
FailedSaveHandled(i) ==
  /\ i \in 1..Len(client.saves) /\ client.saves[i].stage = "answered"
  /\ ~IsOk(client.saves[i].status)
  /\ client'.saves = Remove(client.saves, i)

\* C28 as claimed: when a create or an update is answered with a status that
\* is not 2xx, the list of the page stays as it is, the error toast is shown
\* and the form stays open.
C28_FailedSaveKeepsForm ==
  [][\A i \in 1..MaxInFlight :
       FailedSaveHandled(i)
         => /\ client'.bikes = client.bikes
            /\ client'.toast = "error"
            /\ client'.open = client.open]_vars

\* C29: under Completion, whenever the saving flag is set it is later
\* released, and whenever the uploading flag is set it is later released.
C29_FlagsReleased ==
  /\ client.saving ~> ~client.saving
  /\ client.uploading ~> ~client.uploading

\* a record was saved and a picture uploaded, and both flags are released
C29_Witness ==
  /\ client.bikes # <<>> /\ client.form.image # DefaultForm.image
  /\ ~client.saving /\ ~client.uploading

\* C30 as claimed: at most one save of the page is in flight, no save in
\* flight was sent while an upload was in flight, and the form cannot be
\* submitted while a save or an upload is in flight.
C30_OneSaveAndNoneDuringUpload ==
  /\ Len(client.saves) <= 1
  /\ \A k \in 1..Len(client.saves) : ~client.saves[k].duringUpload
  /\ (client.saves # <<>> \/ client.uploads # <<>>) => ~CanSubmit(client)

====
